---- MODULE Spec2Model ----
(***************************************************************************)
(* A model of the satisfaculty course scheduler: the entity tables, the    *)
(* (course, room, slot) key space, the constraint classes of               *)
(* satisfaculty/constraints.py, the objective classes of                   *)
(* satisfaculty/objectives.py, the lexicographic optimizer and the         *)
(* optimize_schedule method of src/scheduler.py.  The mixed-integer solver *)
(* is an external collaborator: a solve is a nondeterministic choice among *)
(* the optimal feasible assignments of the rows and bounds it is handed.   *)
(***************************************************************************)
EXTENDS Integers, Sequences, FiniteSets, TLC

VARIABLES
    rooms_df,      \* sequence of room rows [Room, Capacity]
    courses_df,    \* sequence of course rows [Course, Instructor, Enrollment, ...]
    time_slots,    \* sequence of slot rows [Slot, Days, Start, End]
    constraints,   \* the constraint objects handed to add_constraints, in order
    objectives,    \* the objective list of the current lexicographic_optimize call
    prob,          \* the rows of the model (named linear constraints)
    upBound,       \* upper bound of each decision variable x[k]
    counts,        \* the value returned by each constraint's apply, in order
    round,         \* number of objectives solved and frozen so far
    optima,        \* the optimal value v_i read at each round
    varValue,      \* the assignment of the last solve (the set of keys at 1)
    schedule,      \* self.schedule
    result,        \* the value returned by the last optimize call
    stdout,        \* the constraint names printed by the diagnosis
    overlaps,      \* the pairs (reference, slot) a built overlap predicate accepts
    objective_cache, \* scheduler._objective_cache
    fs,            \* the files the scheduler reads and writes, by name
    pc             \* position in the scheduler's life cycle

vars == <<rooms_df, courses_df, time_slots, constraints, objectives, prob, upBound,
          counts, round, optima, varValue, schedule, result, stdout, overlaps,
          objective_cache, fs, pc>>

\* the values an attribute or a return value takes besides real content
None == [kind |-> "None"]
Unset == [kind |-> "unset"]
FatalError == [kind |-> "error"]
Schedule(A) == [kind |-> "schedule", rows |-> A]
Predicates(P) == [kind |-> "predicates", pairs |-> P]
Values(A) == [kind |-> "values", ones |-> A]
Dict(items) == [kind |-> "dict", items |-> items]
EmptyDict == [key \in {} |-> {}]
Raised(exception) == [kind |-> "raised", exception |-> exception]

-----------------------------------------------------------------------------
(* Bounds of the model *)

MaxEnrollment == 2
MaxCapacity == 2
MaxMinute == 45
MaxObjectives == 2

(* Program constants *)

buffer_minutes == 15

-----------------------------------------------------------------------------
(* utils.py *)

\* expand_days_any: scan the day code left to right; "TH" is one token.
RECURSIVE expand_from(_, _)
expand_from(days_str, i) ==
    IF i > Len(days_str) THEN <<>>
    ELSE IF i + 1 <= Len(days_str) /\ days_str[i] = "T" /\ days_str[i + 1] = "H"
         THEN <<"TH">> \o expand_from(days_str, i + 2)
         ELSE <<days_str[i]>> \o expand_from(days_str, i + 1)

\* a plausible slip: every character is a day of its own
expand_days_chars(days_str) == days_str

expand_days_any(days_str) == expand_from(days_str, 1)

SeqToSet(s) == {s[i] : i \in 1..Len(s)}

-----------------------------------------------------------------------------
(* The tables and the dictionaries the scheduler derives from them *)

courses == [i \in 1..Len(courses_df) |-> courses_df[i].Course]
rooms == [i \in 1..Len(rooms_df) |-> rooms_df[i].Room]
slots == [i \in 1..Len(time_slots) |-> time_slots[i].Slot]

\* an attribute that holds a table holds a sequence of rows; these two stand
\* for an attribute that was never assigned and for one that holds None
Missing == <<Unset>>
NoTable == <<None>>

\* dict(zip(ids, values)): the last row of an identifier is the one that counts
LastIndex(df, column, v) ==
    CHOOSE i \in 1..Len(df) : df[i][column] = v /\ \A j \in (i + 1)..Len(df) : df[j][column] # v

CourseRow(c) == courses_df[LastIndex(courses_df, "Course", c)]
RoomRow(r) == rooms_df[LastIndex(rooms_df, "Room", r)]
SlotRow(t) == time_slots[CHOOSE i \in 1..Len(time_slots) : time_slots[i].Slot = t]

enrollments(c) == CourseRow(c).Enrollment
capacities(r) == RoomRow(r).Capacity
course_slot_types(c) == CourseRow(c).SlotType
slot_days(t) == SeqToSet(expand_days_any(SlotRow(t).Days))
slot_start_minutes(t) == SlotRow(t).Start
slot_end_minutes(t) == SlotRow(t).End

instructors == {courses_df[i].Instructor : i \in 1..Len(courses_df)}

\* a[(instructor, course)] = 1 if the instructor teaches the course
a(instructor, course) ==
    IF \E i \in 1..Len(courses_df) :
            courses_df[i].Course = course /\ courses_df[i].Instructor = instructor
    THEN 1 ELSE 0

\* the key space: every (course, room, slot) triple
keys == SeqToSet(courses) \X SeqToSet(rooms) \X SeqToSet(slots)

-----------------------------------------------------------------------------
(* The model handed to the solver: named rows over the decision variables  *)
(* x[k], k a key, each with coefficients, a sense and a right-hand side.   *)

Ones(S) == [v \in S |-> 1]

Row(name, coef, sense, rhs) == [name |-> name, coef |-> coef, sense |-> sense, rhs |-> rhs]

RECURSIVE SumOver(_, _)
SumOver(f, S) ==
    IF S = {} THEN 0
    ELSE LET v == CHOOSE w \in S : TRUE IN f[v] + SumOver(f, S \ {v})

\* the value of a linear expression under an assignment A (the variables at 1)
LinValue(coef, A) == SumOver(coef, DOMAIN coef \cap A)

RowHolds(r, A) ==
    LET lhs == LinValue(r.coef, A) IN
    CASE r.sense = "==" -> lhs = r.rhs
      [] r.sense = "<=" -> lhs <= r.rhs
      [] r.sense = ">=" -> lhs >= r.rhs

\* the assignments the solver may return: binary, within the bounds, every row kept
Feasible(rows, ub) ==
    {A \in SUBSET {k \in DOMAIN ub : ub[k] = 1} : \A r \in rows : RowHolds(r, A)}

-----------------------------------------------------------------------------
(* scheduler.py of the package: the key filter and the overlap predicate   *)

\* filter_keys(keys, course=course)
filter_keys_course(ks, course) == {k \in ks : k[1] = course}

\* filter_keys(keys, course=course, room=room)
filter_keys_course_room(ks, course, room) == {k \in ks : k[1] = course /\ k[2] = room}

\* filter_keys(keys, course=course, time_slot=time_slot)
filter_keys_course_slot(ks, course, time_slot) == {k \in ks : k[1] = course /\ k[3] = time_slot}

\* make_overlap_predicate(reference)(course, room, slot)
make_overlap_predicate(reference, slot) ==
    /\ slot_days(slot) \cap slot_days(reference) # {}
    /\ slot_start_minutes(slot) <= slot_start_minutes(reference)
    /\ slot_end_minutes(slot) > slot_start_minutes(reference) - buffer_minutes

-----------------------------------------------------------------------------
(* constraints.py: each apply takes the scheduler's model                  *)
(* [prob, upBound] and gives the model it leaves and the count it returns. *)

Applied(rows, ub, count) == [prob |-> rows, upBound |-> ub, count |-> count]

\* a plausible slip: "at most once" instead of "exactly once"
AssignAllCoursesAtMostOnce(sch) ==
    Applied(sch.prob \cup
              {Row(<<"assign_course", courses[i]>>,
                   Ones(filter_keys_course(keys, courses[i])), "<=", 1) :
                 i \in 1..Len(courses)},
            sch.upBound, Len(courses))

AssignAllCoursesApply(sch) ==
    Applied(sch.prob \cup
              {Row(<<"assign_course", courses[i]>>,
                   Ones(filter_keys_course(keys, courses[i])), "==", 1) :
                 i \in 1..Len(courses)},
            sch.upBound, Len(courses))

NoInstructorOverlapApply(sch) ==
    Applied(sch.prob \cup
              {Row(<<"no_instructor_overlap", instructor, slots[j]>>,
                   [k \in {kk \in keys : make_overlap_predicate(slots[j], kk[3])} |->
                       a(instructor, k[1])],
                   "<=", 1) :
                 instructor \in instructors, j \in 1..Len(slots)},
            sch.upBound, Cardinality(instructors) * Len(slots))

\* the unique (day, start_time) pairs of all time slots
day_start_pairs ==
    UNION {{<<day, slot_start_minutes(slots[j])>> : day \in slot_days(slots[j])} :
              j \in 1..Len(slots)}

\* a plausible slip: the buffer comparison made inclusive
overlapping_keys_inclusive(room, day, start_minutes) ==
    {k \in keys :
        /\ k[2] = room
        /\ day \in slot_days(k[3])
        /\ slot_start_minutes(k[3]) <= start_minutes
        /\ slot_end_minutes(k[3]) >= start_minutes - buffer_minutes}

\* a plausible slip: the buffer left out of the comparison
overlapping_keys_no_buffer(room, day, start_minutes) ==
    {k \in keys :
        /\ k[2] = room
        /\ day \in slot_days(k[3])
        /\ slot_start_minutes(k[3]) <= start_minutes
        /\ slot_end_minutes(k[3]) > start_minutes}

\* the keys of a room whose slot contains the day and overlaps the start time
overlapping_keys(room, day, start_minutes) ==
    {k \in keys :
        /\ k[2] = room
        /\ day \in slot_days(k[3])
        /\ slot_start_minutes(k[3]) <= start_minutes
        /\ slot_end_minutes(k[3]) > start_minutes - buffer_minutes}

NoRoomOverlapRows ==
    {Row(<<"no_room_overlap", rooms[i], p[1], p[2]>>,
         Ones(overlapping_keys(rooms[i], p[1], p[2])), "<=", 1) :
       <<i, p>> \in {ip \in (1..Len(rooms)) \X day_start_pairs :
                        overlapping_keys(rooms[ip[1]], ip[2][1], ip[2][2]) # {}}}

NoRoomOverlapApply(sch) ==
    Applied(sch.prob \cup NoRoomOverlapRows, sch.upBound, Cardinality(NoRoomOverlapRows))

\* a plausible slip: a full room is refused too
RoomCapacityInclusive(sch) ==
    Applied(sch.prob,
            [k \in keys |-> IF enrollments(k[1]) >= capacities(k[2]) THEN 0 ELSE sch.upBound[k]],
            Cardinality({k \in keys : enrollments(k[1]) >= capacities(k[2])}))

RoomCapacityApply(sch) ==
    Applied(sch.prob,
            [k \in keys |-> IF enrollments(k[1]) > capacities(k[2]) THEN 0 ELSE sch.upBound[k]],
            Cardinality({k \in keys : enrollments(k[1]) > capacities(k[2])}))

AvoidRoomsForCourseTypeApply(sch, avoid_rooms, course_type) ==
    Applied(sch.prob,
            [k \in keys |-> IF course_slot_types(k[1]) = course_type /\ k[2] \in avoid_rooms
                            THEN 0 ELSE sch.upBound[k]],
            Cardinality({k \in keys : course_slot_types(k[1]) = course_type /\ k[2] \in avoid_rooms}))

\* the rows of the course table that carry a forcing annotation in a column;
\* "" stands for a missing column, a NaN cell and a blank cell alike
Forced(column) == {i \in 1..Len(courses_df) : courses_df[i][column] # ""}

ForceRoomsApply(sch) ==
    Applied(sch.prob \cup
              {Row(<<"force_room", courses_df[i].Course>>,
                   Ones(filter_keys_course_room(keys, courses_df[i].Course, courses_df[i].ForceRoom)),
                   "==", 1) : i \in Forced("ForceRoom")},
            sch.upBound, Cardinality(Forced("ForceRoom")))

ForceTimeSlotsApply(sch) ==
    Applied(sch.prob \cup
              {Row(<<"force_time_slot", courses_df[i].Course>>,
                   Ones(filter_keys_course_slot(keys, courses_df[i].Course, courses_df[i].ForceTimeSlot)),
                   "==", 1) : i \in Forced("ForceTimeSlot")},
            sch.upBound, Cardinality(Forced("ForceTimeSlot")))

Apply(c, sch) ==
    CASE c.kind = "AssignAllCourses" -> AssignAllCoursesApply(sch)
      [] c.kind = "NoInstructorOverlap" -> NoInstructorOverlapApply(sch)
      [] c.kind = "NoRoomOverlap" -> NoRoomOverlapApply(sch)
      [] c.kind = "RoomCapacity" -> RoomCapacityApply(sch)
      [] c.kind = "AvoidRoomsForCourseType" ->
            AvoidRoomsForCourseTypeApply(sch, c.rooms, c.course_type)
      [] c.kind = "ForceRooms" -> ForceRoomsApply(sch)
      [] c.kind = "ForceTimeSlots" -> ForceTimeSlotsApply(sch)

-----------------------------------------------------------------------------
(* objectives.py: evaluate gives the coefficients of the linear expression *)
(* the objective optimizes.  An absent filter is "".                       *)

course_instructor(c) == CourseRow(c).Instructor
course_types(c) == CourseRow(c).SlotType

instructor_matches(obj, course) ==
    obj.instructor = "" \/ course_instructor(course) = obj.instructor

course_type_matches(obj, course) ==
    obj.course_type = "" \/ course_types(course) = obj.course_type

MinimizeClassesBeforeEvaluate(obj) ==
    Ones({k \in keys : /\ ~(slot_start_minutes(k[3]) >= obj.time_minutes)
                       /\ instructor_matches(obj, k[1])})

MinimizeClassesAfterEvaluate(obj) ==
    Ones({k \in keys : /\ ~(slot_start_minutes(k[3]) <= obj.time_minutes)
                       /\ instructor_matches(obj, k[1])
                       /\ course_type_matches(obj, k[1])})

MaximizePreferredRoomsEvaluate(obj) ==
    Ones({k \in keys : /\ k[2] \in obj.preferred_rooms
                       /\ instructor_matches(obj, k[1])
                       /\ course_type_matches(obj, k[1])})

MinimizePreferredRoomsEvaluate(obj) ==
    Ones({k \in keys : /\ k[2] \in obj.preferred_rooms
                       /\ instructor_matches(obj, k[1])
                       /\ course_type_matches(obj, k[1])})

\* a plausible slip: the minutes of one occurrence, whatever the number of days
MinimizeMinutesAfterPerOccurrence(obj) ==
    [k \in keys |->
        IF slot_end_minutes(k[3]) > obj.time_minutes
        THEN slot_end_minutes(k[3]) - obj.time_minutes ELSE 0]

\* MinimizeMinutesAfter: per key, the minutes its slot runs past the threshold
\* on each of the slot's days
MinimizeMinutesAfterEvaluate(obj) ==
    [k \in keys |->
        IF slot_end_minutes(k[3]) > obj.time_minutes
        THEN (slot_end_minutes(k[3]) - obj.time_minutes) * Cardinality(slot_days(k[3]))
        ELSE 0]

Evaluate(obj) ==
    CASE obj.kind = "MinimizeClassesBefore" -> MinimizeClassesBeforeEvaluate(obj)
      [] obj.kind = "MinimizeMinutesAfter" -> MinimizeMinutesAfterEvaluate(obj)
      [] obj.kind = "MinimizeClassesAfter" -> MinimizeClassesAfterEvaluate(obj)
      [] obj.kind = "MaximizePreferredRooms" -> MaximizePreferredRoomsEvaluate(obj)
      [] obj.kind = "MinimizePreferredRooms" -> MinimizePreferredRoomsEvaluate(obj)

\* course.split('-') on the course identifiers of the model
split_hyphen(course) ==
    CASE course = "L1-A" -> <<"L1", "A">>
      [] course = "L1-B" -> <<"L1", "B">>
      [] course = "L1-C" -> <<"L1", "C">>
      [] course = "L2-A" -> <<"L2", "A">>
      [] course = "L2-B" -> <<"L2", "B">>
      [] OTHER -> <<course>>

\* '-'.join(parts)
RECURSIVE join_hyphen(_)
join_hyphen(parts) ==
    IF Len(parts) = 1 THEN parts[1] ELSE parts[1] \o "-" \o join_hyphen(Tail(parts))

root_key(course) ==
    LET parts == split_hyphen(course) IN
    IF Len(parts) <= 1 THEN course ELSE join_hyphen(SubSeq(parts, 1, Len(parts) - 1))

\* the state evaluate works on: the model and the scheduler's objective cache
Model(rows, ub, cache) == [prob |-> rows, upBound |-> ub, cache |-> cache]

Evaluated(expr, rows, ub, cache) ==
    [expr |-> expr, prob |-> rows, upBound |-> ub, cache |-> cache]

cache_key(obj) == <<"lab_root_day_pairs", obj.course_types, obj.preferred_days>>

\* the cache as evaluate finds it: created empty when the attribute is missing
CacheItems(cache) == IF cache = Unset THEN EmptyDict ELSE cache.items

\* the lab courses of the objective, grouped by root; roots = {} is roots=None
root_to_courses(obj) ==
    LET selected == {c \in SeqToSet(courses) :
                        /\ course_types(c) \in obj.course_types
                        /\ (obj.roots = {} \/ root_key(c) \in obj.roots)}
    IN [root \in {root_key(c) : c \in selected} |-> {c \in selected : root_key(c) = root}]

\* the (root, day) pairs that get a pairing variable
pair_vars(obj) ==
    {<<"pair", root, day>> :
       root \in {r \in DOMAIN root_to_courses(obj) : ~(Cardinality(root_to_courses(obj)[r]) < 2)},
       day \in obj.preferred_days}

\* the keys counted for a pairing variable
count_on_day(obj, y) ==
    {k \in keys : /\ k[1] \in root_to_courses(obj)[y[2]]
                  /\ slot_days(k[3]) = SeqToSet(expand_days_any(y[3]))}

\* a plausible slip: the cache is never consulted (each row built again is one
\* more row of the model)
MaximizeLabRootDayPairsRebuilds(obj, sch) ==
    Evaluated(Ones(pair_vars(obj)),
              sch.prob \cup
                {Row(<<"pair_root", y[2], y[3], Cardinality(sch.prob)>>,
                     [v \in {y} \cup count_on_day(obj, y) |-> IF v = y THEN 2 ELSE -1],
                     "<=", 0) : y \in pair_vars(obj)},
              [v \in DOMAIN sch.upBound \cup pair_vars(obj) |->
                  IF v \in pair_vars(obj) THEN 1 ELSE sch.upBound[v]],
              Dict([key \in DOMAIN CacheItems(sch.cache) \cup {cache_key(obj)} |->
                      IF key = cache_key(obj) THEN Ones(pair_vars(obj))
                      ELSE CacheItems(sch.cache)[key]]))

\* a plausible slip: the linking row lets y be 1 with a single section on the day
MaximizeLabRootDayPairsOneSuffices(obj, sch) ==
    IF cache_key(obj) \in DOMAIN CacheItems(sch.cache)
    THEN Evaluated(CacheItems(sch.cache)[cache_key(obj)], sch.prob, sch.upBound,
                   Dict(CacheItems(sch.cache)))
    ELSE Evaluated(Ones(pair_vars(obj)),
                   sch.prob \cup
                     {Row(<<"pair_root", y[2], y[3]>>,
                          [v \in {y} \cup count_on_day(obj, y) |-> IF v = y THEN 1 ELSE -1],
                          "<=", 0) : y \in pair_vars(obj)},
                   [v \in DOMAIN sch.upBound \cup pair_vars(obj) |->
                       IF v \in pair_vars(obj) THEN 1 ELSE sch.upBound[v]],
                   Dict([key \in DOMAIN CacheItems(sch.cache) \cup {cache_key(obj)} |->
                           IF key = cache_key(obj) THEN Ones(pair_vars(obj))
                           ELSE CacheItems(sch.cache)[key]]))

\* a plausible slip: the linking row is turned round (y must be 1 when sections meet)
MaximizeLabRootDayPairsTurned(obj, sch) ==
    IF cache_key(obj) \in DOMAIN CacheItems(sch.cache)
    THEN Evaluated(CacheItems(sch.cache)[cache_key(obj)], sch.prob, sch.upBound,
                   Dict(CacheItems(sch.cache)))
    ELSE Evaluated(Ones(pair_vars(obj)),
                   sch.prob \cup
                     {Row(<<"pair_root", y[2], y[3]>>,
                          [v \in {y} \cup count_on_day(obj, y) |-> IF v = y THEN 2 ELSE -1],
                          ">=", 0) : y \in pair_vars(obj)},
                   [v \in DOMAIN sch.upBound \cup pair_vars(obj) |->
                       IF v \in pair_vars(obj) THEN 1 ELSE sch.upBound[v]],
                   Dict([key \in DOMAIN CacheItems(sch.cache) \cup {cache_key(obj)} |->
                           IF key = cache_key(obj) THEN Ones(pair_vars(obj))
                           ELSE CacheItems(sch.cache)[key]]))

\* MaximizeLabRootDayPairs.evaluate: the cached expression when the key is
\* cached; otherwise one binary y per (root with two or more courses, day), the
\* row 2 * y <= count_on_day for each, and the sum of the y, which is cached
MaximizeLabRootDayPairsEvaluate(obj, sch) ==
    IF cache_key(obj) \in DOMAIN CacheItems(sch.cache)
    THEN Evaluated(CacheItems(sch.cache)[cache_key(obj)], sch.prob, sch.upBound,
                   Dict(CacheItems(sch.cache)))
    ELSE Evaluated(Ones(pair_vars(obj)),
                   sch.prob \cup
                     {Row(<<"pair_root", y[2], y[3]>>,
                          [v \in {y} \cup count_on_day(obj, y) |-> IF v = y THEN 2 ELSE -1],
                          "<=", 0) : y \in pair_vars(obj)},
                   [v \in DOMAIN sch.upBound \cup pair_vars(obj) |->
                       IF v \in pair_vars(obj) THEN 1 ELSE sch.upBound[v]],
                   Dict([key \in DOMAIN CacheItems(sch.cache) \cup {cache_key(obj)} |->
                           IF key = cache_key(obj) THEN Ones(pair_vars(obj))
                           ELSE CacheItems(sch.cache)[key]]))

\* objective.evaluate(scheduler): only the pairing objective touches the model
EvaluateIn(obj, sch) ==
    IF obj.kind = "MaximizeLabRootDayPairs" THEN MaximizeLabRootDayPairsEvaluate(obj, sch)
    ELSE Evaluated(Evaluate(obj), sch.prob, sch.upBound, sch.cache)

-----------------------------------------------------------------------------
(* The solver boundary *)

Abs(n) == IF n < 0 THEN -n ELSE n

SetMin(S) == CHOOSE m \in S : \A n \in S : m <= n
SetMax(S) == CHOOSE m \in S : \A n \in S : m >= n

\* the optimal value of a linear expression over a non-empty feasible set
Optimum(coef, sense, F) ==
    IF sense = "minimize" THEN SetMin({LinValue(coef, A) : A \in F})
    ELSE SetMax({LinValue(coef, A) : A \in F})

\* the optimal assignments: the solver returns any one of them
Optimal(coef, sense, F) ==
    LET best == Optimum(coef, sense, F)
    IN {A \in F : LinValue(coef, A) = best}

-----------------------------------------------------------------------------
(* scheduler.py of the package: setup_problem, the diagnosis and           *)
(* lexicographic_optimize                                                  *)

RECURSIVE ApplyAll(_, _, _)
ApplyAll(cs, i, sch) ==
    IF i > Len(cs) THEN sch
    ELSE LET r == Apply(cs[i], sch) IN
         ApplyAll(cs, i + 1,
                  [prob |-> r.prob, upBound |-> r.upBound,
                   counts |-> Append(sch.counts, r.count)])

\* setup_problem: a fresh model, then every constraint applied in the caller's order
FreshModel == [prob |-> {}, upBound |-> [k \in keys |-> 1], counts |-> <<>>]

setup_problem == ApplyAll(constraints, 1, FreshModel)

\* the diagnosis: relax one row at a time; a row stays only when the rest is
\* satisfiable without it, which leaves a minimal unsatisfiable set of rows
RECURSIVE Relax(_, _, _)
Relax(kept, todo, ub) ==
    IF todo = {} THEN kept
    ELSE LET r == CHOOSE x \in todo : TRUE IN
         IF Feasible((kept \cup todo) \ {r}, ub) = {}
         THEN Relax(kept, todo \ {r}, ub)
         ELSE Relax(kept \cup {r}, todo \ {r}, ub)

Diagnose(rows, ub) == {r.name : r \in Relax({}, rows, ub)}

\* a plausible slip: the objective is not frozen after its round
NoFreeze(i, coef, obj, v) == Row(<<"lex_freeze", i>>, coef, ">=", 0)

\* a plausible slip: the tolerance is ignored and every objective is frozen exactly
FreezeExactly(i, coef, obj, v) == Row(<<"lex_freeze", i>>, coef, "==", v)

\* step 4: freeze the solved objective at v, exactly or within tolerance * |v|
\* (tolerance is held in percent, so the row is scaled by 100)
Freeze(i, coef, obj, v) ==
    IF obj.tolerance = 0 THEN Row(<<"lex_freeze", i>>, coef, "==", v)
    ELSE IF obj.sense = "minimize"
         THEN Row(<<"lex_freeze", i>>, [k \in DOMAIN coef |-> 100 * coef[k]], "<=",
                  100 * v + obj.tolerance * Abs(v))
         ELSE Row(<<"lex_freeze", i>>, [k \in DOMAIN coef |-> 100 * coef[k]], ">=",
                  100 * v - obj.tolerance * Abs(v))

Infeasible(rows, ub) ==
    /\ stdout' = Diagnose(rows, ub)
    /\ schedule' = None
    /\ result' = None
    /\ pc' = "done"
    /\ UNCHANGED <<round, optima, varValue>>

\* a plausible slip: the objective cache outlives the model it was built for
SetupProblemKeepsCache ==
    /\ pc = "loaded"
    /\ prob' = setup_problem.prob
    /\ upBound' = setup_problem.upBound
    /\ counts' = setup_problem.counts
    /\ pc' = "ready"
    /\ varValue' = Unset
    /\ round' = 0
    /\ optima' = <<>>
    /\ UNCHANGED <<fs, objective_cache, rooms_df, courses_df, time_slots, constraints,
                   objectives, schedule, result, stdout, overlaps>>

\* setup_problem: a new model, every constraint applied, and the auxiliary
\* objective state of the model before discarded
SetupProblem ==
    /\ pc = "loaded"
    /\ prob' = setup_problem.prob
    /\ upBound' = setup_problem.upBound
    /\ counts' = setup_problem.counts
    /\ pc' = "ready"
    /\ objective_cache' = Dict(EmptyDict)
    /\ varValue' = Unset
    /\ round' = 0
    /\ optima' = <<>>
    /\ UNCHANGED <<fs, rooms_df, courses_df, time_slots, constraints, objectives,
                   schedule, result, stdout, overlaps>>

\* the test's direct use of make_overlap_predicate on every pair of slots
MakeOverlapPredicate ==
    /\ pc = "ready"
    /\ overlaps = Unset
    /\ overlaps' = Predicates({p \in SeqToSet(slots) \X SeqToSet(slots) :
                                  make_overlap_predicate(p[1], p[2])})
    /\ UNCHANGED <<fs, objective_cache, rooms_df, courses_df, time_slots, constraints, objectives, prob, upBound,
                   counts, round, optima, varValue, schedule, result, stdout, pc>>

\* lexicographic_optimize(objectives) is entered
LexicographicOptimize ==
    /\ pc = "ready"
    /\ round' = 0
    /\ optima' = <<>>
    /\ pc' = "optimizing"
    /\ UNCHANGED <<fs, objective_cache, rooms_df, courses_df, time_slots, constraints, objectives, prob, upBound,
                   counts, varValue, schedule, result, stdout, overlaps>>

\* steps 1 to 4 for the next objective
LexRound ==
    /\ pc = "optimizing"
    /\ round < Len(objectives)
    /\ LET obj == objectives[round + 1]
           ev == EvaluateIn(obj, Model(prob, upBound, objective_cache))
           coef == ev.expr
           F == Feasible(ev.prob, ev.upBound)
       IN /\ upBound' = ev.upBound
          /\ objective_cache' = ev.cache
          /\ IF F = {}
             THEN /\ prob' = ev.prob
                  /\ IF round = 0
                     THEN Infeasible(ev.prob, ev.upBound)
                     ELSE /\ result' = FatalError
                          /\ schedule' = None
                          /\ pc' = "done"
                          /\ UNCHANGED <<round, optima, varValue, stdout>>
             ELSE /\ \E A \in Optimal(coef, obj.sense, F) : varValue' = Values(A)
                  /\ optima' = Append(optima, Optimum(coef, obj.sense, F))
                  /\ prob' = ev.prob \cup
                               {Freeze(round + 1, coef, obj, Optimum(coef, obj.sense, F))}
                  /\ round' = round + 1
                  /\ UNCHANGED <<schedule, result, stdout, pc>>
    /\ UNCHANGED <<fs, rooms_df, courses_df, time_slots, constraints, objectives,
                   counts, overlaps>>

\* steps 5 and 6: one more solve with a trivial objective, then the schedule is
\* built from the decision variables at 1
LexFinish ==
    /\ pc = "optimizing"
    /\ round = Len(objectives)
    /\ LET F == Feasible(prob, upBound)
       IN IF F = {}
          THEN Infeasible(prob, upBound)
          ELSE /\ \E A \in F : /\ varValue' = Values(A)
                               /\ schedule' = Schedule(A \cap keys)
                               /\ result' = Schedule(A \cap keys)
               /\ pc' = "done"
               /\ UNCHANGED <<round, optima, stdout>>
    /\ UNCHANGED <<fs, objective_cache, rooms_df, courses_df, time_slots, constraints,
                   objectives, prob, upBound, counts, overlaps>>

\* a caller's own objective.evaluate(scheduler) on the model in hand, before
\* the objective rounds or after them
EvaluateObjective ==
    /\ pc \in {"ready", "done"}
    /\ \E i \in 1..Len(objectives) :
         LET ev == EvaluateIn(objectives[i], Model(prob, upBound, objective_cache))
         IN /\ result' = [kind |-> "expression", objective |-> i, coef |-> ev.expr]
            /\ prob' = ev.prob
            /\ upBound' = ev.upBound
            /\ objective_cache' = ev.cache
    /\ UNCHANGED <<fs, rooms_df, courses_df, time_slots, constraints, objectives, counts,
                   round, optima, varValue, schedule, stdout, overlaps, pc>>

-----------------------------------------------------------------------------
(* src/scheduler.py: optimize_schedule builds its own problem from the     *)
(* tables, solves it once and stores the schedule.                         *)

AllKeys(c, r, t) == {k \in keys : (c = "" \/ k[1] = c) /\ (r = "" \/ k[2] = r) /\ (t = "" \/ k[3] = t)}

\* how many times a value is listed: a term of an lpSum is added once per listing
Occ(list, v) == Cardinality({i \in 1..Len(list) : list[i] = v})

optimize_schedule_rows ==
    {Row(<<"assign", c>>,
         [k \in AllKeys(c, "", "") |-> Occ(rooms, k[2]) * Occ(slots, k[3])], "==", 1) :
       c \in SeqToSet(courses)}
    \cup {Row(<<"instructor", i, t>>,
              [k \in AllKeys("", "", t) |-> Occ(courses, k[1]) * Occ(rooms, k[2]) * a(i, k[1])],
              "<=", 1) :
            i \in instructors, t \in SeqToSet(slots)}
    \cup {Row(<<"room", r, t>>, [k \in AllKeys("", r, t) |-> Occ(courses, k[1])], "<=", 1) :
            r \in SeqToSet(rooms), t \in SeqToSet(slots)}
    \cup {Row(<<"capacity", r, t>>,
              [k \in AllKeys("", r, t) |-> Occ(courses, k[1]) * enrollments(k[1])],
              "<=", capacities(r)) :
            r \in SeqToSet(rooms), t \in SeqToSet(slots)}

\* df[column] raises KeyError when the table has no such column
HasColumn(df, column) == \A i \in 1..Len(df) : column \in DOMAIN df[i]

\* the columns optimize_schedule reads: a missing one raises KeyError
ColumnsPresent ==
    /\ HasColumn(courses_df, "Course") /\ HasColumn(rooms_df, "Room")
    /\ HasColumn(courses_df, "Instructor") /\ HasColumn(courses_df, "Enrollment")
    /\ HasColumn(rooms_df, "Capacity")

\* a plausible slip: the stored schedule is not cleared when no solution is found
OptimizeScheduleKeepsSchedule ==
    /\ pc \in {"created", "loaded"}
    /\ IF rooms_df = Missing \/ courses_df = Missing
       THEN result' = Raised("AttributeError") /\ UNCHANGED <<schedule, stdout>>
       ELSE IF rooms_df = NoTable \/ courses_df = NoTable
       THEN /\ stdout' = {<<"Error: Room and course data must be loaded first">>}
            /\ result' = None
            /\ UNCHANGED schedule
       ELSE IF ~ColumnsPresent
       THEN result' = Raised("KeyError") /\ UNCHANGED <<schedule, stdout>>
       ELSE LET F == Feasible(optimize_schedule_rows, [k \in keys |-> 1])
            IN IF F = {}
               THEN /\ stdout' = {<<"No solution found">>}
                    /\ schedule' = schedule
                    /\ result' = None
               ELSE /\ \E A \in F : /\ schedule' = Schedule(A)
                                    /\ result' = Schedule(A)
                    /\ UNCHANGED stdout
    /\ pc' = "returned"
    /\ UNCHANGED <<fs, objective_cache, rooms_df, courses_df, time_slots, constraints,
                   objectives, prob, upBound, counts, round, optima, varValue, overlaps>>

\* optimize_schedule, called on a scheduler as constructed or after a load call
OptimizeSchedule ==
    /\ pc \in {"created", "loaded"}
    /\ IF rooms_df = Missing \/ courses_df = Missing
       THEN result' = Raised("AttributeError") /\ UNCHANGED <<schedule, stdout>>
       ELSE IF rooms_df = NoTable \/ courses_df = NoTable
       THEN /\ stdout' = {<<"Error: Room and course data must be loaded first">>}
            /\ result' = None
            /\ UNCHANGED schedule
       ELSE IF ~ColumnsPresent
       THEN result' = Raised("KeyError") /\ UNCHANGED <<schedule, stdout>>
       ELSE LET F == Feasible(optimize_schedule_rows, [k \in keys |-> 1])
            IN IF F = {}
               THEN /\ stdout' = {<<"No solution found">>}
                    /\ schedule' = None
                    /\ result' = None
               ELSE /\ \E A \in F : /\ schedule' = Schedule(A)
                                    /\ result' = Schedule(A)
                    /\ UNCHANGED stdout
    /\ pc' = "returned"
    /\ UNCHANGED <<fs, objective_cache, rooms_df, courses_df, time_slots, constraints,
                   objectives, prob, upBound, counts, round, optima, varValue, overlaps>>

\* the identifiers listed more than once in a column: rooms[rooms.duplicated()]
Duplicates(df, column) ==
    {df[i][column] : i \in {j \in 1..Len(df) : \E h \in 1..(j - 1) : df[h][column] = df[j][column]}}

Table(df) == [kind |-> "table", rows |-> df]

RoomFiles == {"rooms.csv", "rooms_one.csv", "rooms_dup.csv", "rooms_nocap.csv", "rooms_none.csv"}
CourseFiles ==
    {"courses.csv", "courses_big.csv", "courses_dup.csv", "courses_noinstr.csv",
     "courses_none.csv"}

\* load_rooms: the table is stored first and checked for duplicates afterwards
LoadRooms ==
    /\ pc \in {"created", "loaded", "returned"}
    /\ \E filename \in RoomFiles :
         IF filename \notin DOMAIN fs
         THEN /\ stdout' = {<<"Error: not found", filename>>}
              /\ result' = None
              /\ UNCHANGED rooms_df
         ELSE /\ rooms_df' = fs[filename]
              /\ IF ~HasColumn(fs[filename], "Room")
                 THEN /\ stdout' = {<<"Error loading rooms", "KeyError">>}
                      /\ result' = None
                 ELSE IF Duplicates(fs[filename], "Room") # {}
                 THEN /\ stdout' = {<<"Error loading rooms", "Duplicate rooms found",
                                      Duplicates(fs[filename], "Room")>>}
                      /\ result' = None
                 ELSE /\ stdout' = {<<"Loaded rooms", filename>>}
                      /\ result' = Table(fs[filename])
    /\ pc' = "loaded"
    /\ UNCHANGED <<fs, objective_cache, courses_df, time_slots, constraints, objectives, prob,
                   upBound, counts, round, optima, varValue, schedule, overlaps>>

\* load_courses: the table is stored first and checked for duplicates afterwards
LoadCourses ==
    /\ pc \in {"created", "loaded", "returned", "done"}
    /\ \E filename \in CourseFiles :
         IF filename \notin DOMAIN fs
         THEN /\ stdout' = {<<"Error: not found", filename>>}
              /\ result' = None
              /\ UNCHANGED courses_df
         ELSE /\ courses_df' = fs[filename]
              /\ IF ~HasColumn(fs[filename], "Course")
                 THEN /\ stdout' = {<<"Error loading courses", "KeyError">>}
                      /\ result' = None
                 ELSE IF Duplicates(fs[filename], "Course") # {}
                 THEN /\ stdout' = {<<"Error loading courses", "Duplicate courses found",
                                      Duplicates(fs[filename], "Course")>>}
                      /\ result' = None
                 ELSE /\ stdout' = {<<"Loaded courses", filename>>}
                      /\ result' = Table(fs[filename])
    /\ pc' = "loaded"
    /\ UNCHANGED <<fs, objective_cache, rooms_df, time_slots, constraints, objectives, prob,
                   upBound, counts, round, optima, varValue, schedule, overlaps>>

\* what display_schedule prints, given self.schedule
display_schedule_prints ==
    IF schedule = Unset THEN {<<"AttributeError">>}
    ELSE IF schedule # None THEN {<<"Optimized Schedule", schedule>>}
    ELSE {<<"No schedule available. Please run optimize_schedule() first.">>}

DisplaySchedule ==
    /\ pc \in {"created", "loaded", "returned"}
    /\ stdout' = display_schedule_prints
    /\ UNCHANGED <<fs, objective_cache, rooms_df, courses_df, time_slots, constraints,
                   objectives, prob, upBound, counts, round, optima, varValue, schedule,
                   result, overlaps, pc>>

\* the file save_schedule writes, given self.schedule (fs as it is when none)
save_schedule_writes(filename) ==
    IF schedule = Unset \/ schedule = None THEN fs
    ELSE [n \in DOMAIN fs \cup {filename} |-> IF n = filename THEN schedule ELSE fs[n]]

SaveSchedule ==
    /\ pc \in {"created", "loaded", "returned"}
    /\ fs' = save_schedule_writes("output/schedule.csv")
    /\ stdout' = IF schedule = Unset THEN {<<"AttributeError">>}
                 ELSE IF schedule # None THEN {<<"Schedule saved to", "output/schedule.csv">>}
                 ELSE {<<"No schedule available to save. Please run optimize_schedule() first.">>}
    /\ UNCHANGED <<objective_cache, rooms_df, courses_df, time_slots, constraints,
                   objectives, prob, upBound, counts, round, optima, varValue, schedule,
                   result, overlaps, pc>>

-----------------------------------------------------------------------------
(* The inputs: tables, constraint lists and objective lists *)

CourseRec(c, i, e, fr, ft) ==
    [Course |-> c, Instructor |-> i, Enrollment |-> e, SlotType |-> "Lecture",
     ForceRoom |-> fr, ForceTimeSlot |-> ft]
RoomRec(r, cap) == [Room |-> r, Capacity |-> cap]
SlotRec(t, days, start, end) == [Slot |-> t, Days |-> days, Start |-> start, End |-> end]

WeekDays == <<"M", "T", "W", "TH", "F">>

\* the day code a table author writes for a set of days: the day names in week
\* order, run together ("TTH" for Tuesday and Thursday)
RECURSIVE DayCodeFrom(_, _)
DayCodeFrom(D, i) ==
    IF i > Len(WeekDays) THEN <<>>
    ELSE (IF WeekDays[i] \in D
          THEN (IF WeekDays[i] = "TH" THEN <<"T", "H">> ELSE <<WeekDays[i]>>)
          ELSE <<>>) \o DayCodeFrom(D, i + 1)
DayCode(D) == DayCodeFrom(D, 1)

Times == {t \in 0..MaxMinute : t % 15 = 0 \/ t % 20 = 0 \/ t = MaxMinute}

Constraint(kind) == [kind |-> kind]
AAC == Constraint("AssignAllCourses")
NIO == Constraint("NoInstructorOverlap")
NRO == Constraint("NoRoomOverlap")
RC == Constraint("RoomCapacity")
FR == Constraint("ForceRooms")
FT == Constraint("ForceTimeSlots")
ARC == [kind |-> "AvoidRoomsForCourseType", rooms |-> {"R1"}, course_type |-> "Lecture"]

LabRec(c, i) ==
    [Course |-> c, Instructor |-> i, Enrollment |-> 1, SlotType |-> "Lab",
     ForceRoom |-> "", ForceTimeSlot |-> ""]

PairObjective(types, days, roots, tolerance) ==
    [kind |-> "MaximizeLabRootDayPairs", course_types |-> types, preferred_days |-> days,
     roots |-> roots, sense |-> "maximize", tolerance |-> tolerance]

Objective(kind, time, instructor, preferred, sense, tolerance) ==
    [kind |-> kind, time_minutes |-> time, instructor |-> instructor, course_type |-> "",
     preferred_rooms |-> preferred, sense |-> sense, tolerance |-> tolerance]

TypeOK ==
    /\ pc \in {"created", "loaded", "ready", "optimizing", "done", "returned"}
    /\ round \in 0..Len(objectives)
    /\ Len(optima) = round \/ pc \in {"loaded", "ready"}

InitAt(cs, rs, ts, cons, objs, files, at) ==
    /\ courses_df = cs
    /\ rooms_df = rs
    /\ time_slots = ts
    /\ constraints = cons
    /\ objectives = objs
    /\ prob = {}
    /\ upBound = [k \in {} |-> 1]
    /\ counts = <<>>
    /\ round = 0
    /\ optima = <<>>
    /\ varValue = Unset
    /\ schedule = Unset
    /\ result = Unset
    /\ stdout = {}
    /\ overlaps = Unset
    /\ objective_cache = Unset
    /\ fs = files
    /\ pc = at

InitWith(cs, rs, ts, cons, objs) == InitAt(cs, rs, ts, cons, objs, EmptyDict, "loaded")

-----------------------------------------------------------------------------
(* Spec: the optimize calls over small timetables *)

CourseTables ==
    {<<CourseRec("C1", "Smith", e1, "", "")>> : e1 \in {1, MaxEnrollment}}
    \cup {<<CourseRec("C1", "Smith", e1, "", ""), CourseRec("C2", i2, 1, "", "")>> :
            e1 \in {1, MaxEnrollment}, i2 \in {"Smith", "Johnson"}}

RoomTables ==
    {<<RoomRec("R1", c1)>> : c1 \in 1..MaxCapacity}
    \cup {<<RoomRec("R1", c1), RoomRec("R2", 1)>> : c1 \in 1..MaxCapacity}

SlotTables ==
    {<<SlotRec("MWF-0", DayCode({"M", "W", "F"}), 0, 30)>>,
     <<SlotRec("MWF-0", DayCode({"M", "W", "F"}), 0, 30),
       SlotRec("MWF-45", DayCode({"M", "W", "F"}), 45, 60)>>,
     <<SlotRec("MWF-0", DayCode({"M", "W", "F"}), 0, 30),
       SlotRec("MW-20", DayCode({"M", "W"}), 20, 45)>>,
     <<SlotRec("T-0", DayCode({"T"}), 0, 30), SlotRec("TH-0", DayCode({"TH"}), 0, 30)>>}

ConstraintLists ==
    {<<AAC, NRO>>, <<AAC, NIO, NRO, RC>>, <<NIO, NRO, RC>>, <<ARC, RC, AAC>>}

ObjectiveLists ==
    {<<>>, <<Objective("MinimizeClassesBefore", 15, "", {}, "minimize", 0)>>}

Init ==
    \E cs \in CourseTables, rs \in RoomTables, ts \in SlotTables,
       cons \in ConstraintLists, objs \in ObjectiveLists :
        InitWith(cs, rs, ts, cons, objs)

Next ==
    \/ SetupProblem
    \/ LexicographicOptimize
    \/ LexRound
    \/ LexFinish
    \/ OptimizeSchedule

Spec == Init /\ [][Next]_vars

-----------------------------------------------------------------------------
(* Properties of the optimize calls, checked under Spec *)

HasConstraint(kind) == \E i \in 1..Len(constraints) : constraints[i].kind = kind

TimesScheduled(rows, c) == Cardinality({k \in rows : k[1] = c})

\* C1: a schedule returned by an optimize call whose constraints include
\* AssignAllCourses (optimize_schedule always adds its own course rows) holds
\* every course of the course table in exactly one (course, room, slot) key.
C1_EveryCourseExactlyOnce ==
    (/\ result.kind = "schedule"
     /\ pc = "returned" \/ (pc = "done" /\ HasConstraint("AssignAllCourses")))
    => /\ schedule = result
       /\ result.rows \subseteq keys
       /\ \A i \in 1..Len(courses) : TimesScheduled(result.rows, courses[i]) = 1

C1_Witness ==
    /\ pc = "done"
    /\ HasConstraint("AssignAllCourses")
    /\ result.kind = "schedule"
    /\ Len(courses) = 2
    /\ Len(rooms) = 2
    /\ Len(slots) = 2

\* C4: when no assignment satisfies the hard constraints, the optimize call
\* returns None through the normal channel (no error) and no schedule is stored.
C4_InfeasibleReturnsNone ==
    /\ (pc = "returned" /\ Feasible(optimize_schedule_rows, [k \in keys |-> 1]) = {})
         => (result = None /\ schedule = None)
    /\ (pc = "done" /\ Feasible(setup_problem.prob, setup_problem.upBound) = {})
         => (result = None /\ schedule = None)

C4_Witness ==
    /\ pc = "returned"
    /\ Feasible(optimize_schedule_rows, [k \in keys |-> 1]) = {}
    /\ result = None
    /\ Len(courses) = 2

RowsNamed(names) == {r \in prob : r.name \in names}

TwoCoursesOneRoomOneSlot ==
    /\ Len(courses) = 2
    /\ Len(rooms) = 1
    /\ Len(slots) = 1
    /\ constraints = <<AAC, NRO>>

-----------------------------------------------------------------------------
(* SpecLex: lexicographic_optimize over every short list of objectives, on *)
(* a timetable of two courses, two rooms and two slots                     *)

ObjectiveCatalogue ==
    {Objective("MinimizeClassesBefore", 15, "", {}, "minimize", 0),
     Objective("MinimizeClassesAfter", 15, "", {}, "minimize", 100),
     Objective("MinimizeClassesAfter", 15, "Smith", {}, "maximize", 0),
     Objective("MaximizePreferredRooms", 0, "", {"R1"}, "maximize", 50),
     Objective("MinimizePreferredRooms", 0, "", {"R1"}, "minimize", 0)}

RECURSIVE ListsUpTo(_)
ListsUpTo(n) ==
    IF n = 0 THEN {<<>>}
    ELSE ListsUpTo(n - 1) \cup
         {Append(l, o) : l \in {m \in ListsUpTo(n - 1) : Len(m) = n - 1}, o \in ObjectiveCatalogue}

InitLex ==
    \E i2 \in {"Smith", "Johnson"}, cons \in {<<AAC, NIO, NRO>>},
       objs \in ListsUpTo(MaxObjectives) :
        InitWith(<<CourseRec("C1", "Smith", 1, "", ""), CourseRec("C2", i2, 1, "", "")>>,
                 <<RoomRec("R1", 1), RoomRec("R2", 1)>>,
                 <<SlotRec("MWF-0", DayCode({"M", "W", "F"}), 0, 30),
                   SlotRec("MWF-45", DayCode({"M", "W", "F"}), 45, 60)>>,
                 cons, objs)

SpecLex == InitLex /\ [][Next]_vars

\* the base model: the rows and bounds setup_problem leaves, before any objective
BaseFeasible == Feasible(setup_problem.prob, setup_problem.upBound)

ObjValue(i, A) == LinValue(Evaluate(objectives[i]), A)

\* the value of objective i is within its tolerance of v, on the degrading side
WithinTolerance(i, val, v) ==
    IF objectives[i].tolerance = 0 THEN val = v
    ELSE IF objectives[i].sense = "minimize"
         THEN v <= val /\ 100 * (val - v) <= objectives[i].tolerance * Abs(v)
         ELSE val <= v /\ 100 * (v - val) <= objectives[i].tolerance * Abs(v)

\* C2: the schedule lexicographic_optimize returns respects every frozen
\* objective value: exactly when the tolerance is 0, within tolerance * |v_i| on
\* the degrading side otherwise; and v_1 is the optimum of O1 alone.
C2_FrozenValuesRespected ==
    (pc = "done" /\ result.kind = "schedule")
    => /\ \A i \in 1..Len(objectives) : WithinTolerance(i, ObjValue(i, result.rows), optima[i])
       /\ Len(objectives) >= 1 =>
            optima[1] = Optimum(Evaluate(objectives[1]), objectives[1].sense, BaseFeasible)

C2_Witness ==
    /\ pc = "done"
    /\ result.kind = "schedule"
    /\ Len(objectives) = 2
    /\ objectives[1].tolerance > 0
    /\ ObjValue(1, result.rows) # optima[1]
    /\ objectives[2].tolerance = 0

\* the feasible assignments whose O1 value is the O1 optimum, within O1's tolerance
FrozenO1Feasible ==
    LET v1 == Optimum(Evaluate(objectives[1]), objectives[1].sense, BaseFeasible)
    IN {A \in BaseFeasible : WithinTolerance(1, ObjValue(1, A), v1)}

BestO2 == Optimum(Evaluate(objectives[2]), objectives[2].sense, FrozenO1Feasible)

-----------------------------------------------------------------------------
(* SpecOverlap: the overlap rule on every pair of slots drawn from a few   *)
(* day patterns and a grid of start and end times, with two courses that   *)
(* compete for one room                                                    *)

DayPatterns == {{"T"}, {"TH"}, {"T", "TH"}, {"M", "W", "F"}, {"M", "W"}, {"TH", "F"}}

Intervals == {p \in Times \X Times : p[1] < p[2]}

InitOverlap ==
    \E D1 \in DayPatterns, D2 \in DayPatterns, p1 \in Intervals, p2 \in Intervals :
        InitWith(<<CourseRec("C1", "Smith", 1, "", ""), CourseRec("C2", "Smith", 1, "", "")>>,
                 <<RoomRec("R1", 1)>>,
                 <<SlotRec("S1", DayCode(D1), p1[1], p1[2]),
                   SlotRec("S2", DayCode(D2), p2[1], p2[2])>>,
                 <<AAC, NRO>>, <<>>)

NextOverlap ==
    \/ SetupProblem
    \/ MakeOverlapPredicate

SpecOverlap == InitOverlap /\ [][NextOverlap]_vars

\* the days a slot meets on, read back from its day code
TrueDays(t) == CHOOSE D \in SUBSET SeqToSet(WeekDays) : DayCode(D) = SlotRow(t).Days

SharedDay(s1, s2) == TrueDays(s1) \cap TrueDays(s2) # {}

Tested == pc = "ready" /\ overlaps.kind = "predicates"

\* make_overlap_predicate(s1) accepts s2
Overlap(s1, s2) == <<s1, s2>> \in overlaps.pairs

\* some no_room_overlap row taken at a (day, start) of s1 holds a key of s2
RowOverlap(s1, s2) ==
    \E r \in prob :
        /\ r.name[1] = "no_room_overlap"
        /\ r.name[3] \in TrueDays(s1)
        /\ r.name[4] = slot_start_minutes(s1)
        /\ \E k \in DOMAIN r.coef : k[3] = s2

\* the two courses placed in the one room, one in s1 and the other in s2
SameRoom(s1, s2) == {<<"C1", "R1", s1>>, <<"C2", "R1", s2>>}

\* the rows of the model leave no way to place both
Conflict(s1, s2) ==
    \E r \in prob : r.name[1] = "no_room_overlap" /\ ~RowHolds(r, SameRoom(s1, s2))

SlotPairs == SeqToSet(slots) \X SeqToSet(slots)

\* C6: slots with no common day never overlap, whatever their times: the
\* predicate built for one rejects the other and no room row holds both (and
\* slots at the same time with a common day, such as T and TTH, do overlap).
C6_NoCommonDayNoOverlap ==
    Tested =>
      \A p \in SlotPairs :
        /\ ~SharedDay(p[1], p[2]) => (~Overlap(p[1], p[2]) /\ ~RowOverlap(p[1], p[2]))
        /\ (SharedDay(p[1], p[2]) /\ slot_start_minutes(p[1]) = slot_start_minutes(p[2]))
             => (Overlap(p[1], p[2]) /\ RowOverlap(p[1], p[2]))

C6_Witness ==
    /\ Tested
    /\ TrueDays("S1") = {"T"}
    /\ TrueDays("S2") = {"TH"}
    /\ slot_start_minutes("S1") = slot_start_minutes("S2")
    /\ slot_end_minutes("S1") = slot_end_minutes("S2")
    /\ ~Overlap("S1", "S2")
    /\ ~Overlap("S2", "S1")

\* C7 as stated: on a shared day a slot that ends at or before the reference's
\* start less the buffer does not overlap, and a slot that starts before the
\* reference ends and ends after the reference's start less the buffer does.
C7_OverlapRule ==
    Tested =>
      \A p \in SlotPairs :
        SharedDay(p[1], p[2]) =>
          /\ slot_end_minutes(p[2]) <= slot_start_minutes(p[1]) - buffer_minutes
               => ~Overlap(p[1], p[2])
          /\ (/\ slot_start_minutes(p[2]) < slot_end_minutes(p[1])
              /\ slot_end_minutes(p[2]) > slot_start_minutes(p[1]) - buffer_minutes)
               => Overlap(p[1], p[2])

\* C7 amended: on a shared day a slot that ends at or before the reference's
\* start less the buffer does not overlap, and a slot that starts no later than
\* the reference starts and ends after the reference's start less the buffer does.
C7_OverlapRuleAtStart ==
    Tested =>
      \A p \in SlotPairs :
        SharedDay(p[1], p[2]) =>
          /\ slot_end_minutes(p[2]) <= slot_start_minutes(p[1]) - buffer_minutes
               => (~Overlap(p[1], p[2]) /\ ~RowOverlap(p[1], p[2]))
          /\ (/\ slot_start_minutes(p[2]) <= slot_start_minutes(p[1])
              /\ slot_end_minutes(p[2]) > slot_start_minutes(p[1]) - buffer_minutes)
               => (Overlap(p[1], p[2]) /\ RowOverlap(p[1], p[2]))

C7_Witness ==
    /\ Tested
    /\ SharedDay("S1", "S2")
    /\ slot_end_minutes("S2") <= slot_start_minutes("S1")
    /\ slot_end_minutes("S2") > slot_start_minutes("S1") - buffer_minutes
    /\ Overlap("S1", "S2")
    /\ RowOverlap("S1", "S2")

\* the minutes between the end of s2 and the start of s1
Gap(s1, s2) == slot_start_minutes(s1) - slot_end_minutes(s2)

\* C8 as stated: two classes on a shared day, one ending exactly 15 minutes
\* before the other starts, conflict and cannot share a room.
C8_FifteenApartConflict ==
    Tested =>
      \A p \in SlotPairs :
        (SharedDay(p[1], p[2]) /\ Gap(p[1], p[2]) = buffer_minutes)
          => (Overlap(p[1], p[2]) /\ Conflict(p[1], p[2]))

\* C8 amended: two back-to-back classes on a shared day conflict and cannot
\* share a room when one ends less than 15 minutes before the other starts;
\* exactly 15 minutes apart they do not conflict.
C8_UnderFifteenApartConflict ==
    Tested =>
      \A p \in SlotPairs :
        SharedDay(p[1], p[2]) =>
          /\ (0 <= Gap(p[1], p[2]) /\ Gap(p[1], p[2]) < buffer_minutes)
               => (Overlap(p[1], p[2]) /\ Conflict(p[1], p[2]))
          /\ Gap(p[1], p[2]) = buffer_minutes
               => (/\ ~Overlap(p[1], p[2])
                   /\ ~Overlap(p[2], p[1])
                   /\ ~Conflict(p[1], p[2]))

C8_Witness ==
    /\ Tested
    /\ SharedDay("S1", "S2")
    /\ Gap("S1", "S2") = buffer_minutes
    /\ ~Overlap("S1", "S2")
    /\ ~Conflict("S1", "S2")

-----------------------------------------------------------------------------
(* RoomCapacity, checked under Spec *)

\* the model before (n = i - 1) and after (n = i) the i-th constraint is applied
ModelAfter(n) == ApplyAll(SubSeq(constraints, 1, n), 1, FreshModel)

TooBig == {k \in keys : CourseRow(k[1]).Enrollment > RoomRow(k[2]).Capacity}

\* C9: RoomCapacity.apply sets the upper bound of a key's variable to 0 exactly
\* when the course's enrollment is strictly greater than the room's capacity,
\* leaves every other bound and every row as they were, and returns the number
\* of keys it zeroed.
C9_RoomCapacityZeroesIffTooBig ==
    pc = "ready" =>
      \A i \in 1..Len(constraints) :
        constraints[i].kind = "RoomCapacity" =>
          /\ \A k \in keys :
               /\ k \in TooBig => ModelAfter(i).upBound[k] = 0
               /\ k \notin TooBig => ModelAfter(i).upBound[k] = ModelAfter(i - 1).upBound[k]
          /\ ModelAfter(i).prob = ModelAfter(i - 1).prob
          /\ counts[i] = Cardinality(TooBig)
          /\ \A k \in TooBig : upBound[k] = 0

C9_Witness ==
    /\ pc = "ready"
    /\ Len(constraints) = 4
    /\ constraints[4] = RC
    /\ \E k \in keys : CourseRow(k[1]).Enrollment > RoomRow(k[2]).Capacity /\ upBound[k] = 0
    /\ \E k \in keys : CourseRow(k[1]).Enrollment = RoomRow(k[2]).Capacity /\ upBound[k] = 1
    /\ counts[4] > 0

-----------------------------------------------------------------------------
(* SpecForce: forcing annotations that name rooms and slots inside and     *)
(* outside the tables                                                      *)

ForcedCourseTables ==
    {<<CourseRec("C1", "Smith", 1, fr, ft)>> : fr \in {"", "R1", "R9"}, ft \in {"", "S2", "S9"}}
    \cup {<<CourseRec("C1", "Smith", 1, fr, ft), CourseRec("C2", "Smith", 1, "R1", "")>> :
            fr \in {"", "R1", "R9"}, ft \in {"", "S2", "S9"}}

InitForce ==
    \E cs \in ForcedCourseTables,
       rs \in {<<RoomRec("R1", 1)>>, <<RoomRec("R1", 1), RoomRec("R2", 1)>>},
       cons \in {<<AAC, FR>>, <<AAC, FT>>, <<AAC, NRO, FR, FT>>},
       objs \in {<<>>, <<Objective("MinimizePreferredRooms", 0, "", {"R1"}, "minimize", 0)>>} :
        InitWith(cs, rs,
                 <<SlotRec("S1", DayCode({"M", "W", "F"}), 0, 30),
                   SlotRec("S2", DayCode({"T", "TH"}), 0, 30)>>,
                 cons, objs)

SpecForce == InitForce /\ [][Next]_vars

\* the force rows whose course names a room or slot missing from its table
MissingForceRows ==
    {r \in prob :
        \/ /\ r.name[1] = "force_room"
           /\ CourseRow(r.name[2]).ForceRoom \notin SeqToSet(rooms)
        \/ /\ r.name[1] = "force_time_slot"
           /\ CourseRow(r.name[2]).ForceTimeSlot \notin SeqToSet(slots)}

\* C10: a forcing annotation that names a room (ForceRooms) or slot
\* (ForceTimeSlots) missing from its table is guarded by a presence check:
\* it adds no row for that course and does not make the model infeasible.
C10_MissingForceIsNoOp ==
    pc = "ready" =>
      /\ MissingForceRows = {}
      /\ Feasible(prob \ MissingForceRows, upBound) # {} => Feasible(prob, upBound) # {}

-----------------------------------------------------------------------------
(* SpecLoad: a scheduler as constructed, then any sequence of load_rooms,  *)
(* load_courses, optimize_schedule, display_schedule and save_schedule     *)
(* calls over a few files, some with a repeated identifier or a column     *)
(* left out                                                                *)

LoadFiles ==
    ("rooms.csv" :> <<RoomRec("R1", 1), RoomRec("R2", 1)>>)
    @@ ("rooms_one.csv" :> <<RoomRec("R1", 1)>>)
    @@ ("rooms_dup.csv" :> <<RoomRec("R1", 1), RoomRec("R1", 1)>>)
    @@ ("rooms_nocap.csv" :> <<[Room |-> "R1"]>>)
    @@ ("courses.csv" :> <<CourseRec("C1", "Smith", 1, "", ""), CourseRec("C2", "Johnson", 1, "", "")>>)
    @@ ("courses_big.csv" :> <<CourseRec("C1", "Smith", MaxEnrollment, "", "")>>)
    @@ ("courses_dup.csv" :> <<CourseRec("C1", "Smith", 1, "", ""), CourseRec("C1", "Smith", 1, "", "")>>)
    @@ ("courses_noinstr.csv" :> <<[Course |-> "C1", Enrollment |-> 1]>>)

InitLoad ==
    InitAt(Missing, Missing, <<SlotRec("MWF-0", DayCode({"M", "W", "F"}), 0, 30)>>,
           <<>>, <<>>, LoadFiles, "created")

NextLoad ==
    \/ LoadRooms
    \/ LoadCourses
    \/ OptimizeSchedule
    \/ DisplaySchedule
    \/ SaveSchedule

SpecLoad == InitLoad /\ [][NextLoad]_vars

\* the identifiers a table attribute lists more than once (none when it holds no
\* table or the table has no such column)
HeldDuplicates(df, column) == IF HasColumn(df, column) THEN Duplicates(df, column) ELSE {}

DuplicateReported ==
    \E m \in stdout :
        Len(m) = 3 /\ m[2] \in {"Duplicate rooms found", "Duplicate courses found"}

\* C11: a load call that detects a duplicate Room or Course identifier reports
\* the error and returns None, and the scheduler never holds a room or course
\* table with a duplicate identifier (so optimize_schedule never uses one).
C11_DuplicatesRejected ==
    /\ (pc = "loaded" /\ DuplicateReported) => result = None
    /\ HeldDuplicates(rooms_df, "Room") = {}
    /\ HeldDuplicates(courses_df, "Course") = {}

\* C16: when the most recent optimize_schedule call gave no schedule, whatever
\* the reason, display_schedule and save_schedule find no schedule: none is left
\* over from an earlier successful call.
C16_NoLeftoverSchedule ==
    (pc = "returned" /\ result.kind # "schedule")
    => /\ \A m \in display_schedule_prints : m[1] # "Optimized Schedule"
       /\ save_schedule_writes("output/schedule.csv") = fs

-----------------------------------------------------------------------------
(* SpecRerun: an optimize call with a pairing objective, then load_courses *)
(* and a second, independent optimize call on the model built anew         *)

MW == DayCode({"M", "W"})
TTH == DayCode({"T", "TH"})

RerunFiles ==
    "courses.csv" :> <<LabRec("L2-A", "Smith"), LabRec("L2-B", "Johnson")>>

RerunObjectiveLists ==
    {<<PairObjective({"Lab"}, {MW}, {}, 0)>>,
     <<PairObjective({"Lab"}, {MW, TTH}, {}, 0),
       Objective("MinimizeClassesBefore", 15, "", {}, "minimize", 0)>>}

InitRerun ==
    \E objs \in RerunObjectiveLists, cons \in {<<AAC>>, <<AAC, NRO>>} :
        InitAt(<<LabRec("L1-A", "Smith"), LabRec("L1-B", "Johnson")>>,
               <<RoomRec("R1", 1)>>,
               <<SlotRec("MW-0", MW, 0, 30), SlotRec("TTH-0", TTH, 0, 30)>>,
               cons, objs, RerunFiles, "loaded")

NextRerun ==
    \/ SetupProblem
    \/ LexicographicOptimize
    \/ LexRound
    \/ LexFinish
    \/ LoadCourses

SpecRerun == InitRerun /\ [][NextRerun]_vars

IsPairVar(v) == v[1] = "pair"

\* the pairing variables of an expression that are variables of the model in
\* hand, each with its linking row
OfCurrentModel(expr) ==
    \A y \in DOMAIN expr :
        /\ y \in DOMAIN upBound
        /\ \E r \in prob : r.name = <<"pair_root", y[2], y[3]>> /\ y \in DOMAIN r.coef

\* the roots of the course table in hand that have two or more courses
RootsWithSiblings ==
    {root_key(c) : c \in {d \in SeqToSet(courses) :
                            \E e \in SeqToSet(courses) : e # d /\ root_key(e) = root_key(d)}}

-----------------------------------------------------------------------------
(* SpecPairs: lab sections of one root, pairing objectives, one model      *)

MWF == DayCode({"M", "W", "F"})

Before15 == Objective("MinimizeClassesBefore", 15, "", {}, "minimize", 0)

\* objective lists; no list holds two pairing objectives of different cache
\* key that pair the same root on the same day (their rows would share a name)
PairObjectiveLists ==
    {<<PairObjective({"Lab"}, {MW}, {}, 0)>>,
     <<PairObjective({"Lab"}, {MW, MWF}, {}, 100), Before15>>,
     <<Before15, PairObjective({"Lab"}, {MW}, {}, 0)>>,
     <<PairObjective({"Lab"}, {MW}, {"L2"}, 0), PairObjective({"Lab"}, {MW}, {"L1"}, 0)>>,
     <<PairObjective({"Lab"}, {MW}, {"L1"}, 0), PairObjective({"Lab"}, {MW}, {"L1", "L2"}, 0)>>}

PairTables ==
    {[courses |-> <<LabRec("L1-A", "Smith"), LabRec("L1-B", "Johnson")>>,
      slots |-> <<SlotRec("MW-0", MW, 0, 30), SlotRec("MW-45", MW, 45, 60),
                  SlotRec("MWF-0", MWF, 0, 30)>>],
     [courses |-> <<LabRec("L1-A", "Smith"), LabRec("L1-B", "Johnson"), LabRec("L2-A", "Smith")>>,
      slots |-> <<SlotRec("MW-0", MW, 0, 30), SlotRec("MWF-45", MWF, 45, 60)>>],
     [courses |-> <<LabRec("L1-A", "Smith"), LabRec("L1-B", "Johnson"), LabRec("L1-C", "Smith")>>,
      slots |-> <<SlotRec("MW-0", MW, 0, 30), SlotRec("MW-45", MW, 45, 60)>>]}

InitPairs ==
    \E t \in PairTables, objs \in PairObjectiveLists, cons \in {<<AAC>>, <<AAC, NRO>>, <<NRO>>} :
        InitWith(t.courses, <<RoomRec("R1", 1)>>, t.slots, cons, objs)

NextPairs ==
    \/ SetupProblem
    \/ EvaluateObjective
    \/ LexicographicOptimize
    \/ LexRound
    \/ LexFinish

SpecPairs == InitPairs /\ [][NextPairs]_vars

\* a call of objectives[i].evaluate whose cache key the cache already holds
EvaluateAgain(i) ==
    /\ pc \in {"ready", "done"}
    /\ pc' = pc
    /\ result'.kind = "expression"
    /\ result'.objective = i
    /\ objectives[i].kind = "MaximizeLabRootDayPairs"
    /\ cache_key(objectives[i]) \in DOMAIN CacheItems(objective_cache)

\* C13: a second or later evaluate call of a MaximizeLabRootDayPairs within
\* one model returns the expression the first call built and cached, and
\* leaves the model as it was: no new variable, no new constraint row, the
\* cache unchanged.
C13_SecondEvaluateAddsNothing ==
    [][\A i \in 1..Len(objectives) :
          EvaluateAgain(i) =>
            /\ result'.coef = CacheItems(objective_cache)[cache_key(objectives[i])]
            /\ prob' = prob
            /\ upBound' = upBound
            /\ objective_cache' = objective_cache]_vars

C13_Witness ==
    /\ pc = "ready"
    /\ result.kind = "expression"
    /\ objectives[result.objective].kind = "MaximizeLabRootDayPairs"
    /\ result.coef = CacheItems(objective_cache)[cache_key(objectives[result.objective])]
    /\ DOMAIN result.coef # {}
    /\ \E r \in prob : r.name[1] = "pair_root"

\* the days a day pattern stands for
TrueDaysOf(code) == CHOOSE D \in SUBSET SeqToSet(WeekDays) : DayCode(D) = code

\* the placements in A of sections of the root of y on slots whose day set is
\* exactly the pattern of y, and the sections so placed
PlacementsOnPattern(A, y) ==
    {k \in A \cap keys : root_key(k[1]) = y[2] /\ TrueDays(k[3]) = TrueDaysOf(y[3])}

SectionsOnPattern(A, y) == {k[1] : k \in PlacementsOnPattern(A, y)}

PairVarsOfModel == {v \in DOMAIN upBound : IsPairVar(v)}

Family(root) == {c \in SeqToSet(courses) : root_key(c) = root}

-----------------------------------------------------------------------------
(* SpecMinutes: one course, one room, two candidate slots and the single   *)
(* objective MinimizeMinutesAfter, in minutes since midnight               *)

\* 14:00-15:00, 16:00-16:30, 16:00-16:40, 16:00-17:00
MinuteSpans == {<<840, 900>>, <<960, 990>>, <<960, 1000>>, <<960, 1020>>}

MinuteSlotTables ==
    {<<SlotRec("S1", d1, m1[1], m1[2]), SlotRec("S2", d2, m2[1], m2[2])>> :
        <<d1, m1, d2, m2>> \in {MWF, TTH, DayCode({"TH"})} \X MinuteSpans
                               \X {MWF, TTH, DayCode({"TH"})} \X MinuteSpans}

\* thresholds 16:00 and 17:00
InitMinutes ==
    \E ts \in MinuteSlotTables, T \in {960, 1020} :
        InitWith(<<CourseRec("C1", "Smith", 1, "", "")>>, <<RoomRec("R1", 1)>>, ts,
                 <<AAC, NRO>>, <<Objective("MinimizeMinutesAfter", T, "", {}, "minimize", 0)>>)

NextMinutes ==
    \/ SetupProblem
    \/ LexicographicOptimize
    \/ LexRound
    \/ LexFinish

SpecMinutes == InitMinutes /\ [][NextMinutes]_vars

\* the minutes a slot runs past T, over all the days it meets
MinutesPast(t, T) ==
    IF SlotRow(t).End > T THEN (SlotRow(t).End - T) * Cardinality(TrueDays(t)) ELSE 0

\* the total minutes after T of an assignment
TotalMinutesAfter(A, T) == SumOver([k \in A |-> MinutesPast(k[3], T)], A)

C17_LaterRoundsFeasible ==
    /\ result # FatalError
    /\ (pc = "optimizing" /\ round >= 1) =>
         /\ Feasible(prob, upBound) # {}
         /\ round < Len(objectives) =>
              LET ev == EvaluateIn(objectives[round + 1], Model(prob, upBound, objective_cache))
              IN Feasible(ev.prob, ev.upBound) # {}

C17_Witness ==
    /\ pc = "done"
    /\ round = 2
    /\ result.kind = "schedule"
    /\ objectives[2].kind = "MaximizeLabRootDayPairs"
    /\ optima[2] = 1
    /\ \E r \in prob : r.name = <<"lex_freeze", 1>>
    /\ \E r \in prob : r.name[1] = "pair_root"

\* C20: the expression evaluate returns for a MaximizeLabRootDayPairs is the
\* sum of the pairing variables of that objective's own root families (its
\* course_types, preferred_days and roots), whether the caller is an
\* objective round (the expression its freeze row carries) or a direct call,
\* and whatever other pairing objective was evaluated on the scheduler before.
C20_ExpressionOfOwnRoots ==
    /\ (result.kind = "expression" /\ objectives[result.objective].kind = "MaximizeLabRootDayPairs")
         => DOMAIN result.coef = pair_vars(objectives[result.objective])
    /\ \A r \in prob :
         (r.name[1] = "lex_freeze" /\ objectives[r.name[2]].kind = "MaximizeLabRootDayPairs")
           => DOMAIN r.coef = pair_vars(objectives[r.name[2]])

-----------------------------------------------------------------------------
(* SpecRooms: the NoRoomOverlap rows of two courses, two rooms and every   *)
(* pair of slots drawn from a few day patterns and the grid of times       *)

RoomDayPatterns == {{"T"}, {"TH"}, {"T", "TH"}}

\* the first slot early, in the middle or late; the second anywhere on the grid
FirstIntervals == {<<0, 15>>, <<15, 30>>, <<20, 40>>}

InitRooms ==
    \E D1 \in RoomDayPatterns, D2 \in RoomDayPatterns, p1 \in FirstIntervals, p2 \in Intervals :
        InitWith(<<CourseRec("C1", "Smith", 1, "", ""), CourseRec("C2", "Johnson", 1, "", "")>>,
                 <<RoomRec("R1", 1), RoomRec("R2", 1)>>,
                 <<SlotRec("S1", DayCode(D1), p1[1], p1[2]),
                   SlotRec("S2", DayCode(D2), p2[1], p2[2])>>,
                 <<NRO>>, <<>>)

NextRooms == SetupProblem

SpecRooms == InitRooms /\ [][NextRooms]_vars

\* s1 starts no later than s2 and ends more than the start of s2 less the buffer
StartsFirstAndReaches(s1, s2) ==
    /\ SlotRow(s1).Start <= SlotRow(s2).Start
    /\ SlotRow(s1).End > SlotRow(s2).Start - 15

\* the pairwise conflict of two slots
PairConflict(s1, s2) ==
    /\ SharedDay(s1, s2)
    /\ StartsFirstAndReaches(s1, s2) \/ StartsFirstAndReaches(s2, s1)

IntervalsIntersect(s1, s2) ==
    SlotRow(s1).Start < SlotRow(s2).End /\ SlotRow(s2).Start < SlotRow(s1).End

RoomRowsHold(A) == \A r \in prob : r.name[1] = "no_room_overlap" => RowHolds(r, A)

\* two placements of A in one room on conflicting slots
RoomClash(A) ==
    \E k1 \in A, k2 \in A : k1 # k2 /\ k1[2] = k2[2] /\ PairConflict(k1[3], k2[3])

\* two courses of A in one room on conflicting slots
CourseClash(A) ==
    \E k1 \in A, k2 \in A : k1[1] # k2[1] /\ k1[2] = k2[2] /\ PairConflict(k1[3], k2[3])

PlacedAtMostOnce(A) == \A k1 \in A, k2 \in A : k1[1] = k2[1] => k1 = k2

\* C18: the NoRoomOverlap rows are pairwise room exclusion: an assignment
\* keeps every no_room_overlap row exactly when no two of its placements share
\* a room on slots that have a common day and of which one starts no later
\* than the other and ends more than 15 minutes before the other starts or
\* later; with every course placed at most once these are two courses; and no
\* two courses whose intervals intersect on a shared day are in one room.
C18_RoomRowsArePairwiseExclusion ==
    pc = "ready" =>
      \A A \in SUBSET keys :
        /\ RoomRowsHold(A) <=> ~RoomClash(A)
        /\ PlacedAtMostOnce(A) => (RoomRowsHold(A) <=> ~CourseClash(A))
        /\ RoomRowsHold(A) =>
             \A k1 \in A, k2 \in A :
                (k1[1] # k2[1] /\ k1[2] = k2[2] /\ SharedDay(k1[3], k2[3]))
                  => ~IntervalsIntersect(k1[3], k2[3])

C18_Witness ==
    /\ pc = "ready"
    /\ TrueDays("S1") = {"T"}
    /\ TrueDays("S2") = {"T", "TH"}
    /\ SlotRow("S1").Start = 15
    /\ SlotRow("S1").End = 30
    /\ SlotRow("S2").Start = 40
    /\ ~IntervalsIntersect("S1", "S2")
    /\ ~RoomRowsHold({<<"C1", "R1", "S1">>, <<"C2", "R1", "S2">>})
    /\ RoomRowsHold({<<"C1", "R1", "S1">>, <<"C2", "R2", "S2">>})

-----------------------------------------------------------------------------
(* SpecInstructor: two labs, a T-only and a TH-only slot at the same time  *)
(* and a third slot of any pattern, under NoInstructorOverlap              *)

InitInstructor ==
    \E D \in DayPatterns, p \in FirstIntervals, i2 \in {"Smith", "Johnson"},
       objs \in {<<>>, <<Before15>>} :
        InitWith(<<CourseRec("Lab1", "Smith", 1, "", ""), CourseRec("Lab2", i2, 1, "", "")>>,
                 <<RoomRec("R1", 1)>>,
                 <<SlotRec("T-0", DayCode({"T"}), 0, 30), SlotRec("TH-0", DayCode({"TH"}), 0, 30),
                   SlotRec("S3", DayCode(D), p[1], p[2])>>,
                 <<AAC, NIO>>, objs)

NextInstructor ==
    \/ SetupProblem
    \/ LexicographicOptimize
    \/ LexRound
    \/ LexFinish

SpecInstructor == InitInstructor /\ [][NextInstructor]_vars

InstructorRowsHold(A) ==
    \A r \in prob : r.name[1] = "no_instructor_overlap" => RowHolds(r, A)

\* two courses of one instructor placed on slots that conflict pairwise
InstructorClash(A) ==
    \E k1 \in A, k2 \in A :
        /\ k1[1] # k2[1]
        /\ CourseRow(k1[1]).Instructor = CourseRow(k2[1]).Instructor
        /\ PairConflict(k1[3], k2[3])

\* C19: NoInstructorOverlap excludes an assignment of the courses only when
\* two courses of one instructor are on slots that conflict pairwise (a common
\* day, and an overlap in time under the buffer rule); one course in the T-only
\* slot and another of the same instructor in the TH-only slot at the same time
\* is admitted, whatever third slot the table holds.
C19_OnlyPairwiseConflictsExcluded ==
    pc = "ready" =>
      \A A \in SUBSET keys :
        (PlacedAtMostOnce(A) /\ ~InstructorRowsHold(A)) => InstructorClash(A)

====
